---- MODULE Spec2Model ----
(***************************************************************************)
(* Model of tools/convert_to_onnx.py: a command-line script that builds    *)
(* the fixed SimplePPGModel, loads a checkpoint into it and exports it     *)
(* with torch.onnx.export.  One process run is a sequence of steps, one    *)
(* per statement of the script; the file system persists between runs.     *)
(***************************************************************************)
EXTENDS Integers, Sequences, FiniteSets, TLC

(* ------------------------------ bounds --------------------------------- *)
\* most command-line arguments after the script name
MaxArgs == 3
\* most process runs against the same file system
MaxRuns == 2
\* largest batch size an inference request uses
MaxBatch == 3
\* number of distinct outcomes of a random draw (randn, random initialisation)
NumRandn == 2

(* ------------------------- program constants --------------------------- *)
ConvIn == 1
ConvOut == 16
KernelSize == 3
FcInLen == 118
FcOut == 2
DummyBatch == 1
DummyChannels == 1
DummyLen == 120
MinArgc == 3
BatchAxis == 0

\* bug: the tensor names of another application
InputNames_renamed == <<"input">>
InputNames == <<"input_signal">>
OutputNames == <<"sbp_dbp">>
\* bug: the export forgets dynamic_axes
DynamicAxes_none == {}
DynamicAxes == {[tensor |-> "input_signal", axis |-> BatchAxis],
                [tensor |-> "sbp_dbp", axis |-> BatchAxis]}

(* --------------------------- SimplePPGModel ---------------------------- *)
\* bug: the fully connected layer is sized for a signal of 100 samples
ArchStateDict_wrongfc ==
    {[key |-> "conv.weight", shape |-> <<ConvOut, ConvIn, KernelSize>>],
     [key |-> "conv.bias",   shape |-> <<ConvOut>>],
     [key |-> "fc.weight",   shape |-> <<FcOut, ConvOut * (FcInLen - 20)>>],
     [key |-> "fc.bias",     shape |-> <<FcOut>>]}

\* the parameter names and shapes SimplePPGModel.__init__ creates
ArchStateDict ==
    {[key |-> "conv.weight", shape |-> <<ConvOut, ConvIn, KernelSize>>],
     [key |-> "conv.bias",   shape |-> <<ConvOut>>],
     [key |-> "fc.weight",   shape |-> <<FcOut, ConvOut * FcInLen>>],
     [key |-> "fc.bias",     shape |-> <<FcOut>>]}

\* SimplePPGModel.forward on shapes: the output shape, or <<>> when a layer
\* rejects its input
Forward(x) ==
    IF Len(x) # 3 THEN <<>>
    ELSE IF x[2] # ConvIn \/ x[3] < KernelSize THEN <<>>
    ELSE LET conv == <<x[1], ConvOut, x[3] - KernelSize + 1>>
             flat == <<x[1], conv[2] * conv[3]>>
         IN  IF flat[2] # ConvOut * FcInLen THEN <<>> ELSE <<flat[1], FcOut>>

(* ------------------------------ files ---------------------------------- *)
NoGraph == [input_names |-> <<>>, output_names |-> <<>>, dynamic_axes |-> {},
            traced_in |-> <<>>, sd |-> {}, wid |-> 0]
Absent == [kind |-> "absent", sd |-> {}, wid |-> 0, graph |-> NoGraph]
\* wid names the parameter values: positive for trained values saved in a
\* checkpoint, negative for the values of a random initialisation
Checkpoint(sd, wid) == [kind |-> "ckpt", sd |-> sd, wid |-> wid, graph |-> NoGraph]
OnnxFile(graph) == [kind |-> "onnx", sd |-> {}, wid |-> 0, graph |-> graph]

Script == "convert.py"
Paths == {"model.pth", "bad.pth", "none.pth", "out.onnx", "ro/out.onnx"}
ExtraArgs == {"extra.onnx"}
AllPaths == Paths \cup ExtraArgs
\* the output directory ro/ is read-only
Writable(p) == p # "ro/out.onnx"

\* the parameters a checkpoint saved from the trained network holds
TrainedStateDict ==
    {[key |-> "conv.weight", shape |-> <<16, 1, 3>>],
     [key |-> "conv.bias",   shape |-> <<16>>],
     [key |-> "fc.weight",   shape |-> <<2, 16 * 118>>],
     [key |-> "fc.bias",     shape |-> <<2>>]}

\* checkpoints saved from other networks: a shorter signal, two input
\* channels, a layer without bias
BadStateDicts ==
    {(TrainedStateDict \ {[key |-> "fc.weight", shape |-> <<2, 16 * 118>>]})
        \cup {[key |-> "fc.weight", shape |-> <<2, 16 * 98>>]},
     (TrainedStateDict \ {[key |-> "conv.weight", shape |-> <<16, 1, 3>>]})
        \cup {[key |-> "conv.weight", shape |-> <<16, 2, 3>>]},
     TrainedStateDict \ {[key |-> "fc.bias", shape |-> <<2>>]}}

Argvs ==
    {<<Script>>} \cup {<<Script, a>> : a \in Paths}
    \cup {<<Script, a, b>> \o e : a \in Paths, b \in Paths,
                                  e \in UNION {[1..n -> ExtraArgs] : n \in 0..(MaxArgs - 2)}}

Msg(tag, arg) == [msg |-> tag, arg |-> arg]
NoCall == [invoked |-> FALSE, f |-> "", input_names |-> <<>>, output_names |-> <<>>,
           dynamic_axes |-> {}]
NoModel == [exists |-> FALSE, sd |-> {}, wid |-> 0, training |-> FALSE]
NoTensor == [shape |-> <<>>, values |-> 0]
NoInfer == [ran |-> FALSE, shape |-> <<>>, accepted |-> FALSE, out |-> <<>>]

VARIABLES argv, fs, fs0, pc, status, err, stdout, steps, reads, writes,
          pth_path, onnx_path, model, dummy_input, export_call, exports,
          infer, run

vars == <<argv, fs, fs0, pc, status, err, stdout, steps, reads, writes,
          pth_path, onnx_path, model, dummy_input, export_call, exports,
          infer, run>>

Init ==
    /\ argv \in Argvs
    /\ \E bad \in BadStateDicts :
         fs = [p \in AllPaths |->
                 IF p = "model.pth" THEN Checkpoint(TrainedStateDict, 1)
                 ELSE IF p = "bad.pth" THEN Checkpoint(bad, 1)
                 ELSE Absent]
    /\ fs0 = fs
    /\ pc = "main"
    /\ status = 0 - 1
    /\ err = ""
    /\ stdout = <<>>
    /\ steps = <<>>
    /\ reads = {}
    /\ writes = {}
    /\ pth_path = ""
    /\ onnx_path = ""
    /\ model = NoModel
    /\ dummy_input = NoTensor
    /\ export_call = NoCall
    /\ exports = {}
    /\ infer = NoInfer
    /\ run = 1

(* ------------------------- framework calls ----------------------------- *)
\* torch.load(path): the error it raises, or "" when it returns the pickled object
TorchLoadError(file) ==
    IF file.kind = "absent" THEN "FileNotFoundError"
    ELSE IF file.kind # "ckpt" THEN "UnpicklingError"
    ELSE ""

\* bug: load_state_dict(sd, strict=False) on a lenient loader never raises
LoadStateDictError_lenient(m, file) == ""

\* Module.load_state_dict(sd) with the default strict=True: missing keys,
\* unexpected keys and size mismatches all raise
LoadStateDictError(m, file) ==
    IF file.sd # m.sd THEN "RuntimeError" ELSE ""

\* what line 22 raises for the file at the checkpoint path
LoadError(m, file) ==
    IF TorchLoadError(file) # "" THEN TorchLoadError(file)
    ELSE LoadStateDictError(m, file)

\* the graph torch.onnx.export traces: the model's parameters, the shape of
\* the example input, and the tensor names and dynamic axes it was given
ExportGraph(m, x, inames, onames, dyn) ==
    [input_names |-> inames, output_names |-> onames, dynamic_axes |-> dyn,
     traced_in |-> x.shape, sd |-> m.sd, wid |-> m.wid]

\* what torch.onnx.export raises: tracing runs forward on the example input
\* first, the output file is opened only after the graph is built
ExportError(x, f) ==
    IF Forward(x.shape) = <<>> THEN "RuntimeError"
    ELSE IF ~Writable(f) THEN "PermissionError"
    ELSE ""

\* an inference runtime's check of an input shape against the exported graph
GraphAccepts(g, shape) ==
    /\ Len(shape) = Len(g.traced_in)
    /\ \A i \in 1..Len(shape) :
         \/ [tensor |-> g.input_names[1], axis |-> i - 1] \in g.dynamic_axes
         \/ shape[i] = g.traced_in[i]
    /\ Forward(shape) # <<>>

\* bug: the error is caught at top level and the process exits normally
Crash_swallowed(e) ==
    /\ pc' = "exit"
    /\ status' = 0
    /\ err' = e

Crash(e) ==
    /\ pc' = "crashed"
    /\ status' = 1
    /\ err' = e

(* --------------------------- the script -------------------------------- *)
\* bug: the argument count is compared with 2, so one argument reaches
\* sys.argv[2] and raises IndexError
Main_offbyone ==
    /\ pc = "main"
    /\ IF Len(argv) < MinArgc - 1
       THEN /\ stdout' = Append(stdout, Msg("Usage", ""))
            /\ pc' = "exit"
            /\ status' = 0
            /\ UNCHANGED <<pth_path, onnx_path, err>>
       ELSE IF Len(argv) < MinArgc
       THEN /\ Crash("IndexError")
            /\ UNCHANGED <<pth_path, onnx_path, stdout>>
       ELSE /\ pth_path' = argv[2]
            /\ onnx_path' = argv[3]
            /\ pc' = "print_loading"
            /\ UNCHANGED <<stdout, status, err>>
    /\ UNCHANGED <<argv, fs, fs0, steps, reads, writes, model, dummy_input,
                   export_call, exports, infer, run>>

\* bug: the usage branch ends with sys.exit(2)
Main_exit2 ==
    /\ pc = "main"
    /\ IF Len(argv) < MinArgc
       THEN /\ stdout' = Append(stdout, Msg("Usage", ""))
            /\ pc' = "exit"
            /\ status' = 2
            /\ UNCHANGED <<pth_path, onnx_path>>
       ELSE /\ pth_path' = argv[2]
            /\ onnx_path' = argv[3]
            /\ pc' = "print_loading"
            /\ UNCHANGED <<stdout, status>>
    /\ UNCHANGED <<argv, fs, fs0, err, steps, reads, writes, model, dummy_input,
                   export_call, exports, infer, run>>

\* bug: the two arguments are passed in the wrong order
Main_swapped ==
    /\ pc = "main"
    /\ IF Len(argv) < MinArgc
       THEN /\ stdout' = Append(stdout, Msg("Usage", ""))
            /\ pc' = "exit"
            /\ status' = 0
            /\ UNCHANGED <<pth_path, onnx_path>>
       ELSE /\ pth_path' = argv[3]
            /\ onnx_path' = argv[2]
            /\ pc' = "print_loading"
            /\ UNCHANGED <<stdout, status>>
    /\ UNCHANGED <<argv, fs, fs0, err, steps, reads, writes, model, dummy_input,
                   export_call, exports, infer, run>>

\* lines 41-45: the argument count decides between usage and conversion
Main ==
    /\ pc = "main"
    /\ IF Len(argv) < MinArgc
       THEN /\ stdout' = Append(stdout, Msg("Usage", ""))
            /\ pc' = "exit"
            /\ status' = 0
            /\ UNCHANGED <<pth_path, onnx_path>>
       ELSE /\ pth_path' = argv[2]
            /\ onnx_path' = argv[3]
            /\ pc' = "print_loading"
            /\ UNCHANGED <<stdout, status>>
    /\ UNCHANGED <<argv, fs, fs0, err, steps, reads, writes, model, dummy_input,
                   export_call, exports, infer, run>>

\* line 18
PrintLoading ==
    /\ pc = "print_loading"
    /\ stdout' = Append(stdout, Msg("Loading", pth_path))
    /\ pc' = "instantiate"
    /\ UNCHANGED <<argv, fs, fs0, status, err, steps, reads, writes, pth_path,
                   onnx_path, model, dummy_input, export_call, exports, infer, run>>

\* line 21: a fresh module has randomly initialised parameters and is in
\* training mode
Instantiate ==
    /\ pc = "instantiate"
    /\ \E r \in 1..NumRandn :
         model' = [exists |-> TRUE, sd |-> ArchStateDict, wid |-> 0 - r,
                   training |-> TRUE]
    /\ steps' = Append(steps, "instantiate")
    /\ pc' = "load"
    /\ UNCHANGED <<argv, fs, fs0, status, err, stdout, reads, writes, pth_path,
                   onnx_path, dummy_input, export_call, exports, infer, run>>

\* bug: the checkpoint is read but never loaded into the model
LoadStateDict_skip ==
    /\ pc = "load"
    /\ steps' = Append(steps, "load")
    /\ reads' = IF fs[pth_path].kind = "absent" THEN reads ELSE reads \cup {pth_path}
    /\ IF LoadError(model, fs[pth_path]) # ""
       THEN /\ Crash(LoadError(model, fs[pth_path]))
            /\ UNCHANGED model
       ELSE /\ pc' = "eval"
            /\ UNCHANGED <<model, status, err>>
    /\ UNCHANGED <<argv, fs, fs0, stdout, writes, pth_path, onnx_path,
                   dummy_input, export_call, exports, infer, run>>

\* line 22
LoadStateDict ==
    /\ pc = "load"
    /\ steps' = Append(steps, "load")
    /\ reads' = IF fs[pth_path].kind = "absent" THEN reads ELSE reads \cup {pth_path}
    /\ IF LoadError(model, fs[pth_path]) # ""
       THEN /\ Crash(LoadError(model, fs[pth_path]))
            /\ UNCHANGED model
       ELSE /\ model' = [model EXCEPT !.wid = fs[pth_path].wid]
            /\ pc' = "eval"
            /\ UNCHANGED <<status, err>>
    /\ UNCHANGED <<argv, fs, fs0, stdout, writes, pth_path, onnx_path,
                   dummy_input, export_call, exports, infer, run>>

\* bug: model.eval without the call leaves the module in training mode
Eval_noop ==
    /\ pc = "eval"
    /\ steps' = Append(steps, "eval")
    /\ pc' = "randn"
    /\ UNCHANGED <<argv, fs, fs0, status, err, stdout, reads, writes, pth_path,
                   onnx_path, model, dummy_input, export_call, exports, infer, run>>

\* line 23
Eval ==
    /\ pc = "eval"
    /\ model' = [model EXCEPT !.training = FALSE]
    /\ steps' = Append(steps, "eval")
    /\ pc' = "randn"
    /\ UNCHANGED <<argv, fs, fs0, status, err, stdout, reads, writes, pth_path,
                   onnx_path, dummy_input, export_call, exports, infer, run>>

\* line 27
Randn ==
    /\ pc = "randn"
    /\ \E v \in 1..NumRandn :
         dummy_input' = [shape |-> <<DummyBatch, DummyChannels, DummyLen>>,
                         values |-> v]
    /\ steps' = Append(steps, "randn")
    /\ pc' = "print_exporting"
    /\ UNCHANGED <<argv, fs, fs0, status, err, stdout, reads, writes, pth_path,
                   onnx_path, model, export_call, exports, infer, run>>

\* line 30
PrintExporting ==
    /\ pc = "print_exporting"
    /\ stdout' = Append(stdout, Msg("Exporting", ""))
    /\ pc' = "export"
    /\ UNCHANGED <<argv, fs, fs0, status, err, steps, reads, writes, pth_path,
                   onnx_path, model, dummy_input, export_call, exports, infer, run>>

\* lines 31-38
Export ==
    /\ pc = "export"
    /\ steps' = Append(steps, "export")
    /\ export_call' = [invoked |-> TRUE, f |-> onnx_path,
                       input_names |-> InputNames, output_names |-> OutputNames,
                       dynamic_axes |-> DynamicAxes]
    /\ IF ExportError(dummy_input, onnx_path) # ""
       THEN /\ Crash(ExportError(dummy_input, onnx_path))
            /\ UNCHANGED <<fs, writes, exports>>
       ELSE LET g == ExportGraph(model, dummy_input, InputNames, OutputNames,
                                 DynamicAxes)
            IN  /\ fs' = [fs EXCEPT ![onnx_path] = OnnxFile(g)]
                /\ writes' = writes \cup {onnx_path}
                /\ exports' = exports \cup
                     {[ckpt |-> fs[pth_path], out |-> onnx_path,
                       randn |-> dummy_input.values, graph |-> g]}
                /\ pc' = "print_success"
                /\ UNCHANGED <<status, err>>
    /\ UNCHANGED <<argv, fs0, stdout, reads, pth_path, onnx_path, model,
                   dummy_input, infer, run>>

\* line 39, then the script falls off its end
PrintSuccess ==
    /\ pc = "print_success"
    /\ stdout' = Append(stdout, Msg("Success", onnx_path))
    /\ pc' = "exit"
    /\ status' = 0
    /\ UNCHANGED <<argv, fs, fs0, err, steps, reads, writes, pth_path,
                   onnx_path, model, dummy_input, export_call, exports, infer, run>>

(* -------------------------- the environment ---------------------------- *)
\* the user starts the script again on the file system the last run left
Invoke ==
    /\ pc \in {"exit", "crashed"}
    /\ ~infer.ran
    /\ run < MaxRuns
    /\ run' = run + 1
    /\ argv' \in Argvs
    /\ fs0' = fs
    /\ pc' = "main"
    /\ status' = 0 - 1
    /\ err' = ""
    /\ stdout' = <<>>
    /\ steps' = <<>>
    /\ reads' = {}
    /\ writes' = {}
    /\ pth_path' = ""
    /\ onnx_path' = ""
    /\ model' = NoModel
    /\ dummy_input' = NoTensor
    /\ export_call' = NoCall
    /\ infer' = NoInfer
    /\ UNCHANGED <<fs, exports>>

\* a consumer feeds the graph a successful run has just written an input of
\* some shape
RunInference ==
    /\ pc = "exit"
    /\ onnx_path # ""
    /\ fs[onnx_path].kind = "onnx"
    /\ ~infer.ran
    /\ \E b \in 1..MaxBatch, c \in {DummyChannels, DummyChannels + 1},
          l \in {KernelSize - 1, DummyLen - 1, DummyLen, DummyLen + 1} :
         LET shape == <<b, c, l>>
             ok == GraphAccepts(fs[onnx_path].graph, shape)
         IN  infer' = [ran |-> TRUE, shape |-> shape, accepted |-> ok,
                       out |-> IF ok THEN Forward(shape) ELSE <<>>]
    /\ UNCHANGED <<argv, fs, fs0, pc, status, err, stdout, steps, reads, writes,
                   pth_path, onnx_path, model, dummy_input, export_call,
                   exports, run>>

Step ==
    \/ Main
    \/ PrintLoading
    \/ Instantiate
    \/ LoadStateDict
    \/ Eval
    \/ Randn
    \/ PrintExporting
    \/ Export
    \/ PrintSuccess

Next ==
    \/ Step
    \/ Invoke
    \/ RunInference

Spec == Init /\ [][Next]_vars

\* the script is one synchronous thread: a statement that can run does run
FairSpec == Spec /\ WF_vars(Step)

(* ------------------------------ claims --------------------------------- *)
SuccessPrinted == \E i \in 1..Len(stdout) : stdout[i].msg = "Success"
Printed(tag) == \E i \in 1..Len(stdout) : stdout[i].msg = tag
IsPrefix(s, t) == Len(s) <= Len(t) /\ \A i \in 1..Len(s) : s[i] = t[i]
\* the file is a checkpoint whose parameters fit Conv1d(1,16,3), Linear(16*118,2)
FitsArchitecture(file) == file.kind = "ckpt" /\ file.sd = TrainedStateDict
\* the file is a checkpoint whose parameter shapes do not fit
MismatchedCheckpoint(file) == file.kind = "ckpt" /\ file.sd # TrainedStateDict
\* the run was given fewer than 2 positional arguments
TooFewArgs == Len(argv) - 1 < 2
ConvertOrder == <<"instantiate", "load", "eval", "randn", "export">>
\* the files at the two paths convert_pytorch was called with, if it was called
FileAt(f, p) == IF p \in DOMAIN f THEN f[p] ELSE Absent
ExportIsLastStep == Len(steps) = 5 /\ steps[Len(steps)] = "export"

\* C1: a run with fewer than 2 positional arguments prints the usage message
\* and nothing else, never enters convert_pytorch, and reads and writes no file.
C1_UsageNoFileIO ==
    TooFewArgs =>
        /\ pc \in {"main", "exit"}
        /\ pc = "exit" => stdout = <<Msg("Usage", "")>>
        /\ pc = "main" => stdout = <<>>
        /\ pth_path = "" /\ onnx_path = ""
        /\ steps = <<>>
        /\ reads = {} /\ writes = {} /\ fs = fs0
        /\ ~export_call.invoked
        /\ ~Printed("Loading") /\ ~Printed("Exporting") /\ ~Printed("Success")
C1_Witness == TooFewArgs /\ Len(argv) = 2 /\ pc = "exit" /\ run = 2

\* C2: with a checkpoint whose parameter shapes do not fit the architecture the
\* run fails at the load step: export is never invoked, nothing is written and
\* the success message is not printed.
C2_MismatchFailsAtLoad ==
    (pth_path # "" /\ MismatchedCheckpoint(fs0[pth_path])) =>
        /\ "export" \notin {steps[i] : i \in 1..Len(steps)}
        /\ ~export_call.invoked
        /\ writes = {} /\ fs = fs0
        /\ ~SuccessPrinted
        /\ pc \in {"print_loading", "instantiate", "load", "crashed"}
        /\ pc = "crashed" <=> (Len(steps) = 2 /\ steps[2] = "load")
C2_Witness ==
    /\ pth_path # "" /\ MismatchedCheckpoint(fs0[pth_path])
    /\ pc = "crashed" /\ err = "RuntimeError" /\ Writable(onnx_path)

\* C3: the steps of convert_pytorch run in the order instantiate, load, eval,
\* randn, export; export runs only on a model that holds the checkpoint's
\* parameters and is in inference mode, with the (1,1,120) input.
C3_StepOrder ==
    /\ IsPrefix(steps, ConvertOrder)
    /\ (Len(steps) = 5) =>
         /\ FitsArchitecture(fs0[pth_path])
         /\ model.wid = fs0[pth_path].wid
         /\ ~model.training
         /\ dummy_input.shape = <<1, 1, 120>>
C3_Witness == Len(steps) = 5 /\ pc = "print_success"

\* C4: whenever export is reached it is asked for exactly one input tensor named
\* "input_signal" and one output tensor named "sbp_dbp", whatever the arguments.
C4_TensorNames ==
    /\ export_call.invoked =>
         /\ export_call.input_names = <<"input_signal">>
         /\ export_call.output_names = <<"sbp_dbp">>
    /\ \A p \in AllPaths : fs[p].kind = "onnx" =>
         /\ fs[p].graph.input_names = <<"input_signal">>
         /\ fs[p].graph.output_names = <<"sbp_dbp">>
C4_Witness ==
    /\ export_call.invoked /\ pc = "exit"
    /\ fs[onnx_path].kind = "onnx" /\ onnx_path # "out.onnx"

\* C5: the exported graph accepts an input of shape (B,1,120) for every B >= 1
\* and answers with shape (B,2); it rejects every input with another channel
\* count or another length; axis 0 of both tensors is declared dynamic.
C5_ShapeContract ==
    /\ infer.ran =>
         /\ infer.accepted <=> (infer.shape[2] = 1 /\ infer.shape[3] = 120)
         /\ infer.accepted => infer.out = <<infer.shape[1], 2>>
    /\ \A p \in AllPaths : fs[p].kind = "onnx" =>
         fs[p].graph.dynamic_axes = {[tensor |-> "input_signal", axis |-> 0],
                                     [tensor |-> "sbp_dbp", axis |-> 0]}
C5_Witness == infer.ran /\ infer.accepted /\ infer.shape[1] = MaxBatch

\* C6: a run entered with a checkpoint that fits the architecture and a
\* writable output path ends normally with a non-empty output file, and the
\* success message is printed only after export has written the file.
C6_RunsToCompletion ==
    /\ [](SuccessPrinted =>
            (ExportIsLastStep /\ FileAt(fs, onnx_path).kind = "onnx"))
    /\ (pc = "print_loading" /\ FitsArchitecture(FileAt(fs, pth_path))
            /\ Writable(onnx_path))
         ~> (pc = "exit" /\ status = 0 /\ FileAt(fs, onnx_path).kind = "onnx"
                /\ SuccessPrinted)
C6_Witness ==
    /\ pc = "exit" /\ status = 0 /\ SuccessPrinted
    /\ fs0[onnx_path].kind = "absent" /\ fs[onnx_path].kind = "onnx"

\* C7: a failure of the load step or of the export step ends the run at once
\* in the crashed state: no step follows it, nothing is retried, and a run that
\* failed never prints the success message.
C7_FailuresCrash ==
    /\ [](pc = "crashed" =>
            /\ status = 1 /\ err # ""
            /\ ~SuccessPrinted
            /\ IsPrefix(steps, ConvertOrder)
            /\ Len(steps) >= 2
            /\ \A i \in {Len(steps)} : steps[i] \in {"load", "export"})
    /\ [][(pc = "load" /\ ~FitsArchitecture(FileAt(fs, pth_path))) =>
            (pc' = "crashed" /\ fs' = fs /\ stdout' = stdout)]_vars
    /\ [][(pc = "export" /\ ~Writable(onnx_path)) =>
            (pc' = "crashed" /\ fs' = fs /\ stdout' = stdout)]_vars
    /\ [][pc = "crashed" => run' = run + 1]_vars
C7_Witness == pc = "crashed" /\ err = "PermissionError" /\ Len(steps) = 5

\* C8: two successful conversions of the same checkpoint contents to the same
\* output path export the same graph, whatever values randn drew in each run.
C8_Deterministic ==
    \A e1 \in exports, e2 \in exports :
        (e1.ckpt = e2.ckpt /\ e1.out = e2.out) => e1.graph = e2.graph
C8_Witness ==
    \E e1 \in exports, e2 \in exports :
        e1.ckpt = e2.ckpt /\ e1.out = e2.out /\ e1.randn # e2.randn

\* C9: a run with fewer than 2 positional arguments ends in the normal-exit
\* state with exit status 0; it never crashes and never sets another status.
C9_UsageExitsNormally ==
    TooFewArgs =>
        /\ pc # "crashed"
        /\ err = ""
        /\ pc = "main" => status = 0 - 1
        /\ pc # "main" => (pc = "exit" /\ status = 0)
C9_Witness == TooFewArgs /\ Len(argv) = 1 /\ pc = "exit" /\ status = 0

\* C10 as stated: the only file ever written is the one at sys.argv[2], only
\* the export step writes it, and the checkpoint file at sys.argv[1] is left
\* unchanged in every run.
C10_Original ==
    /\ writes \subseteq {onnx_path}
    /\ fs # fs0 => ExportIsLastStep
    /\ Len(argv) >= 3 =>
         /\ \A p \in AllPaths \ {argv[3]} : fs[p] = fs0[p]
         /\ fs[argv[2]] = fs0[argv[2]]
    /\ Len(argv) < 3 => fs = fs0

\* C10 amended: the only file ever written is the one at sys.argv[2], only the
\* export step writes it, and every other file is left unchanged: the
\* checkpoint file too, unless sys.argv[1] and sys.argv[2] name the same file.
C10_OnlyOutputWritten ==
    /\ writes \subseteq {onnx_path}
    /\ fs # fs0 => ExportIsLastStep
    /\ Len(argv) >= 3 =>
         /\ \A p \in AllPaths \ {argv[3]} : fs[p] = fs0[p]
         /\ argv[2] # argv[3] => fs[argv[2]] = fs0[argv[2]]
    /\ Len(argv) < 3 => fs = fs0
C10_Witness ==
    /\ Len(argv) = MaxArgs + 1 /\ argv[2] # argv[3]
    /\ pc = "exit" /\ fs[argv[3]] # fs0[argv[3]]

====
